---- MODULE Spec2Model ----
(***************************************************************************)
(* Model of website-review-mcp.                                            *)
(*  - The site discovery engine: crawlWebsite (sitemap-first, recursive    *)
(*    fallback), recursiveCrawl, crawlPage's link partition.  The call     *)
(*    stack of recursiveCrawl is an explicit sequence of frames; the       *)
(*    network (sitemap, robots, page responses) is the environment and is  *)
(*    chosen at each request, or fixed by the site being crawled.          *)
(*  - The utilities parseRobotsText, normalizeUrl and findOrphanedPages,   *)
(*    each applied to inputs drawn from bounded sets.                      *)
(*  - The link checker checkBrokenLinks with checkLink.                    *)
(*  - The browser tools captureScreenshots, captureScreenshot,             *)
(*    capturePresentationScreenshots and runAccessibilityAudit.            *)
(***************************************************************************)
EXTENDS Integers, Sequences, FiniteSets, TLC

(* ------------------------------ bounds --------------------------------- *)
MaxUrlTokens == 3
MaxSlides == 3
MaxViewports == 2
MaxCaptureUrls == 2
MaxUrls == 1
MaxRobotsLines == 3
MaxDepthBound == 2
MaxPagesBound == 3
MaxLinks == 2
MaxSitemap == 2

(* ------------------------------- URLs ---------------------------------- *)
\* A URL string is modelled by what `new URL` extracts from it: hostname and
\* pathname.  A string `new URL` rejects has no hostname.
SeedHost == "a.com"
OtherHost == "b.org"
RootPath == <<"/">>
PathA == <<"/", "a">>
PathB == <<"/", "b">>
MkUrl(h, p) == [host |-> h, path |-> p]
SeedUrl == MkUrl(SeedHost, RootPath)
UrlA == MkUrl(SeedHost, PathA)
UrlB == MkUrl(SeedHost, PathB)
UrlX == MkUrl(OtherHost, RootPath)
BadUrl == MkUrl("", <<>>)
SiteUrls == {SeedUrl, UrlA, UrlB}
AllUrls == SiteUrls \cup {UrlX}

isValidUrl(u) == u.host # ""

isSameDomain(u1, u2) ==
  IF isValidUrl(u1) /\ isValidUrl(u2) THEN u1.host = u2.host ELSE FALSE

\* Sequences over S of length 0..n
SeqsUpTo(S, n) == UNION {[1..k -> S] : k \in 0..n}

Range(s) == {s[i] : i \in 1..Len(s)}

Min(a, b) == IF a < b THEN a ELSE b

\* Insertion into a JavaScript Set followed by Array.from: first occurrence
\* of every element, in order.
RECURSIVE ArrayFromSet(_)
ArrayFromSet(s) ==
  IF s = <<>> THEN <<>>
  ELSE LET init == ArrayFromSet(SubSeq(s, 1, Len(s) - 1))
           last == s[Len(s)]
       IN IF last \in Range(init) THEN init ELSE Append(init, last)

(* ----------------------------- URL strings ----------------------------- *)
\* Strings are sequences of tokens: a scheme prefix, a host name, '/', '#',
\* '?', the dot-dot segment and a letter.  A scheme prefix only ever starts
\* a string.
Schemes == {"https://", "http://"}
Hosts == {"a.com"}
UrlTokens == Schemes \cup Hosts \cup {"/", "#", "?", "..", "a"}
UrlTexts ==
  {t \in SeqsUpTo(UrlTokens, MaxUrlTokens) :
     \A i \in 2..Len(t) : t[i] \notin Schemes}
BaseUrls ==
  {<<>>,
   <<"https://", "a.com", "/", "a", "/">>,
   <<"https://", "a.com", "/", "a">>,
   <<"http://", "a.com">>,
   <<"a.com", "/">>}

startsWith(str, prefixes) == str # <<>> /\ Head(str) \in prefixes

\* Index of the first '#' or '?' of str, Len(str) + 1 when there is none
RECURSIVE SuffixStart(_, _)
SuffixStart(str, i) ==
  IF i > Len(str) \/ str[i] \in {"#", "?"} THEN i ELSE SuffixStart(str, i + 1)

\* new URL(str): protocol + '//', host and pathname (what stands before the
\* query and the fragment, '/' when that is empty), or the TypeError
URLParse(str) ==
  IF /\ Len(str) >= 2
     /\ str[1] \in Schemes
     /\ str[2] \in Hosts
     /\ (Len(str) = 2 \/ str[3] \in {"/", "#", "?"})
  THEN LET p == SubSeq(str, 3, SuffixStart(str, 3) - 1)
       IN [ok |-> TRUE, protocol |-> str[1], host |-> str[2],
           pathname |-> IF p = <<>> THEN <<"/">> ELSE p]
  ELSE [ok |-> FALSE, protocol |-> "", host |-> "", pathname |-> <<>>]

\* str.split('/')
RECURSIVE Split(_)
Split(str) ==
  IF "/" \notin Range(str) THEN <<str>>
  ELSE LET k == CHOOSE i \in 1..Len(str) :
                  str[i] = "/" /\ \A j \in 1..(i - 1) : str[j] # "/"
       IN <<SubSeq(str, 1, k - 1)>> \o Split(SubSeq(str, k + 1, Len(str)))

\* The path state machine of the URL parser: dot-dot segments pop, the
\* others are pushed, and a closing dot-dot leaves an empty last segment.
RECURSIVE Walk(_, _)
Walk(dir, segs) ==
  IF segs = <<>> THEN dir
  ELSE LET seg == Head(segs)
           up == IF dir = <<>> THEN dir ELSE SubSeq(dir, 1, Len(dir) - 1)
       IN IF seg = <<"..">>
          THEN Walk(IF Len(segs) = 1 THEN Append(up, <<>>) ELSE up, Tail(segs))
          ELSE Walk(Append(dir, seg), Tail(segs))

RECURSIVE Join(_)
Join(segs) ==
  IF segs = <<>> THEN <<>> ELSE <<"/">> \o Head(segs) \o Join(Tail(segs))

\* new URL(url, baseUrl).toString() for a url that is a relative path
Resolve(url, base) ==
  LET cut == SuffixStart(url, 1)
      relPath == SubSeq(url, 1, cut - 1)
      suffix == SubSeq(url, cut, Len(url))
      baseSegs == Tail(Split(base.pathname))
      dir == SubSeq(baseSegs, 1, Len(baseSegs) - 1)
      segs == IF relPath = <<>> THEN baseSegs ELSE Walk(dir, Split(relPath))
  IN <<base.protocol, base.host>>
       \o (IF segs = <<>> THEN <<"/">> ELSE Join(segs))
       \o suffix

\* Mutant: the base's path is kept in front of an absolute path.
AbsolutePathKeepsBasePath(base, url) ==
  <<base.protocol, base.host>> \o base.pathname \o url

\* `${base.protocol}//${base.host}${url}`
AbsolutePath(base, url) == <<base.protocol, base.host>> \o url

normalizeUrl(url, baseUrl) ==
  IF startsWith(url, Schemes) THEN url
  ELSE IF baseUrl = <<>> THEN url
  ELSE LET base == URLParse(baseUrl) IN
    IF ~base.ok THEN url
    ELSE IF startsWith(url, {"/"}) THEN AbsolutePath(base, url)
    ELSE IF startsWith(url, {"#", "?"}) THEN baseUrl \o url
    ELSE Resolve(url, base)

\* A URL string of a crawl together with what `new URL` extracts from it.
UrlOf(str) ==
  LET u == URLParse(str)
  IN [host |-> IF u.ok THEN u.host ELSE "", path |-> u.pathname, href |-> str]

(* --------------------------- robots policy ----------------------------- *)
\* One line of a robots document: its directive and the trimmed value.
Line(f, v) == [field |-> f, value |-> v]

\* RegExp('^' + pattern.replace(/\*/g, '.*')).test(path), for patterns made
\* of literal characters and '*'.
RECURSIVE RegExpTest(_, _)
RegExpTest(pat, s) ==
  IF pat = <<>> THEN TRUE
  ELSE IF Head(pat) = "*"
       THEN \E k \in 0..Len(s) : RegExpTest(Tail(pat), SubSeq(s, k + 1, Len(s)))
       ELSE /\ s # <<>>
            /\ Head(s) = Head(pat)
            /\ RegExpTest(Tail(pat), Tail(s))

\* Whether new RegExp accepts the pattern: an unbalanced '(' is a SyntaxError.
RegExpValid(pat) == "(" \notin Range(pat)

ParseStep(st, line, userAgent) ==
  IF line.field = "User-agent"
  THEN IF line.value = userAgent \/ line.value = "*"
       THEN [currentAgent |-> line.value, allow |-> <<>>, disallow |-> <<>>]
       ELSE st
  ELSE IF st.currentAgent # "" /\ line.field = "Allow"
  THEN IF line.value # <<>>
       THEN [st EXCEPT !.allow = Append(@, line.value)]
       ELSE st
  ELSE IF st.currentAgent # "" /\ line.field = "Disallow"
  THEN IF line.value # <<>>
       THEN [st EXCEPT !.disallow = Append(@, line.value)]
       ELSE st
  ELSE st

RECURSIVE parseRobotsText(_, _)
parseRobotsText(robotsContent, userAgent) ==
  IF robotsContent = <<>>
  THEN [currentAgent |-> "", allow |-> <<>>, disallow |-> <<>>]
  ELSE ParseStep(parseRobotsText(SubSeq(robotsContent, 1, Len(robotsContent) - 1), userAgent),
                 robotsContent[Len(robotsContent)], userAgent)

\* Whether parseRobotsText throws: some Allow or Disallow line that is read
\* under a current agent carries a value new RegExp rejects.
RECURSIVE parseRobotsThrows(_, _)
parseRobotsThrows(robotsContent, userAgent) ==
  IF robotsContent = <<>> THEN FALSE
  ELSE LET before == SubSeq(robotsContent, 1, Len(robotsContent) - 1)
           line == robotsContent[Len(robotsContent)]
       IN \/ parseRobotsThrows(before, userAgent)
          \/ /\ parseRobotsText(before, userAgent).currentAgent # ""
             /\ line.field \in {"Allow", "Disallow"}
             /\ line.value # <<>>
             /\ ~RegExpValid(line.value)

canCrawl(rules, path) ==
  IF \E i \in 1..Len(rules.disallow) : RegExpTest(rules.disallow[i], path)
  THEN FALSE
  ELSE IF \E i \in 1..Len(rules.allow) : RegExpTest(rules.allow[i], path)
       THEN TRUE
       ELSE TRUE

\* The rule set of `() => true`
PermitAll == [currentAgent |-> "", allow |-> <<>>, disallow |-> <<>>]

\* Robots documents a site may serve.
EmptyRobots == <<>>
RobotsDisallowA == <<Line("User-agent", "*"), Line("Disallow", PathA)>>
RobotsAllowOverride ==
  <<Line("User-agent", "*"), Line("Disallow", <<"/", "*">>), Line("Allow", PathB)>>
RobotsBadPattern == <<Line("User-agent", "*"), Line("Disallow", <<"/", "(">>)>>
RobotsDocs == {EmptyRobots, RobotsDisallowA, RobotsAllowOverride, RobotsBadPattern}

(* ------------------------------ state ---------------------------------- *)
VARIABLES
  options,          \* crawlWebsite's CrawlOptions after defaults
  siteRobots,       \* the robots document the site serves at /robots.txt
  site,             \* the pages the site serves: any, or one page with its anchors
  pc,               \* crawlWebsite's position
  pages,            \* Map<string, PageMetadata>
  errors,           \* CrawlError[]
  sitemapFound,     \* let sitemapFound
  sitemapPages,     \* what fetchSitemap returned
  sitemapQueue,     \* what is left of sitemapPages.slice(0, maxPages)
  canCrawlFn,       \* the rule set behind canCrawlFn
  stack,            \* activation records of recursiveCrawl, innermost last
  crawlData,        \* the CrawlResult returned (NoResult until then)
  fetched,          \* history: page requests issued, by url/depth/outcome/path
  fetchCount,       \* history: page requests per url, saturating at 2
  insertCount,      \* history: pages.set calls per url, saturating at 2
  candidates,       \* history: (parent, link) pairs the for-loop has visited
  recursiveInvoked, \* history: recursiveCrawl was called
  delays,           \* history: per request of a crawl, the sleep(rateLimit) calls before it
  network,          \* history: the kinds of HTTP request issued so far
  input,            \* arguments of the utility function under study
  output,           \* what that function returned
  linkOptions,      \* checkBrokenLinks' CheckLinksOptions after defaults
  crawlFile,        \* the pages of crawl-results.json, or NoFile
  allLinks,         \* the Set allLinks, in insertion order
  linksLeft,        \* what the for-of loop over allLinks has still to visit
  brokenLinks,      \* LinkStatus[]
  workingCount,     \* let workingCount
  linkResult,       \* the BrokenLinkResult returned (NoResult until then)
  probes,           \* history: the HEAD requests issued
  browser,          \* let browser: "none" (null), "open" or "closed"
  shown,            \* the slide the presentation is showing
  workLeft,         \* what the loop of a browser tool has still to visit
  shots,            \* the screenshots (or audits) pushed so far
  attempts          \* history: the items the loop has visited, with their outcome

vars == <<options, siteRobots, site, pc, pages, errors, sitemapFound, sitemapPages, sitemapQueue,
          canCrawlFn, stack, crawlData, fetched, fetchCount, insertCount,
          candidates, recursiveInvoked, delays, network, input, output, linkOptions, crawlFile,
          allLinks, linksLeft, brokenLinks, workingCount, linkResult, probes,
          browser, shown, workLeft, shots, attempts>>

crawlVars == <<options, siteRobots, site, pages, errors, sitemapFound, sitemapPages,
               sitemapQueue, canCrawlFn, stack, crawlData, fetched, fetchCount,
               insertCount, candidates, recursiveInvoked, delays>>
utilVars == <<input, output>>
linkVars == <<linkOptions, crawlFile, allLinks, linksLeft, brokenLinks, workingCount, linkResult,
              probes>>

browserVars == <<browser, shown, workLeft, shots, attempts>>

config == <<options, siteRobots, site>>
history == <<fetched, fetchCount, insertCount, candidates, delays>>

NoResult == [returned |-> FALSE]

Options ==
  [url : {SeedUrl, BadUrl},
   maxDepth : 0..MaxDepthBound,
   maxPages : 1..MaxPagesBound,
   respectRobotsTxt : BOOLEAN]

(* ------------------------- Map<string, PageMetadata> ------------------- *)
EmptyMap == [u \in {} |-> 0]
pagesHas(m, k) == k \in DOMAIN m
\* Mutant: the size is read one too small.
pagesSizeOffByOne(m) == Cardinality(DOMAIN m) - 1

pagesSize(m) == Cardinality(DOMAIN m)
pagesSet(m, k, v) == [u \in (DOMAIN m) \cup {k} |-> IF u = k THEN v ELSE m[u]]

Bump(f, u) ==
  [v \in (DOMAIN f) \cup {u} |->
     IF v = u THEN Min((IF u \in DOMAIN f THEN f[u] ELSE 0) + 1, 2) ELSE f[v]]

(* ------------------------------ crawlPage ------------------------------ *)
\* What a successful response leads crawlPage to return: hrefs are the
\* page's anchors after normalizeUrl, in document order.
PageResponses == SeqsUpTo(AllUrls, MaxLinks)

\* A site that may answer a page request with any anchors, and the sites
\* that serve a fixed document for each pathname (whatever the query and
\* the fragment of the request) and nothing for any other pathname.
AnySite == [kind |-> "any"]

\* One page, with at most one anchor.
SinglePageSites ==
  {[kind |-> "pages", anchorsOf |-> [p \in {RootPath} |-> a]] :
     a \in {<<>>, <<<<"#", "a">>>>, <<<<"?", "a">>>>, <<<<"/">>>>,
            <<<<"https://", "a.com", "/">>>>}}

\* Four pages linking to each other by absolute paths, the anchors of a
\* page in any order.
LinkedSites ==
  LET PathC == <<"/", "c">>
      Orders(S) == {o \in SeqsUpTo(S, MaxLinks) :
                      \A i, j \in 1..Len(o) : o[i] = o[j] => i = j}
  IN {[kind |-> "pages",
       anchorsOf |-> (RootPath :> r) @@ (PathA :> a) @@ (PathB :> b) @@ (PathC :> c)] :
        r \in Orders({PathA, PathB}), a \in Orders({PathB, PathC}),
        b \in Orders({PathA, PathC}), c \in Orders({RootPath})}

\* The hrefs crawlPage sees on the page at url, lines 262-266: the anchors
\* after normalizeUrl(href, url) that start with 'http'.  A pathname the
\* site does not serve gets no successful response.
ResponsesTo(url) ==
  IF site = AnySite THEN PageResponses
  ELSE IF url.path \notin DOMAIN site.anchorsOf THEN {}
  ELSE LET anchors == site.anchorsOf[url.path]
           normalized == [i \in 1..Len(anchors) |-> normalizeUrl(anchors[i], url.href)]
           kept == SelectSeq(normalized, LAMBDA n : startsWith(n, Schemes))
       IN {[i \in 1..Len(kept) |-> UrlOf(kept[i])]}

\* Mutant: every anchor is filed as internal.
crawlPageNoPartition(url, hrefs) ==
  [url |-> url,
   links |-> [internal |-> ArrayFromSet(hrefs), external |-> <<>>]]

crawlPage(url, hrefs) ==
  [url |-> url,
   links |-> [internal |-> ArrayFromSet(SelectSeq(hrefs, LAMBDA h : isSameDomain(h, url))),
              external |-> ArrayFromSet(SelectSeq(hrefs, LAMBDA h : ~isSameDomain(h, url)))]]

(* ----------------------------- fetchSitemap ---------------------------- *)
SitemapEntries == SeqsUpTo(AllUrls, MaxSitemap)
SitemapPath == <<"/", "s">>
sitemapUrlOf(url) == MkUrl(url.host, SitemapPath)

fetchSitemap(entries, sitemapUrl) ==
  SelectSeq(entries, LAMBDA u : isSameDomain(u, sitemapUrl))

\* Mutant: the slice is forgotten.
SitemapSliceAll(urls, maxPages) == urls

\* sitemapPages.slice(0, maxPages)
SitemapSlice(urls, maxPages) ==
  SubSeq(urls, 1, Min(Len(urls), maxPages))

(* ---------------------------- recursiveCrawl --------------------------- *)
Frame(u, d) == [pageUrl |-> u, depth |-> d, at |-> "entry", links |-> <<>>]
Top == stack[Len(stack)]
Pop(stk) == SubSeq(stk, 1, Len(stk) - 1)
SetTop(stk, f) == [stk EXCEPT ![Len(stk)] = f]

\* Mutant: the depth test is dropped.
StopConditionNoDepth(depth, pgs) ==
  pagesSize(pgs) >= options.maxPages

StopCondition(depth, pgs) ==
  depth > options.maxDepth \/ pagesSize(pgs) >= options.maxPages

\* Mutant: the robots check is skipped.
PolicyRejectsNever(rules, pageUrl) == FALSE

PolicyRejects(rules, pageUrl) ==
  IF isValidUrl(pageUrl) THEN ~canCrawl(rules, pageUrl.path) ELSE TRUE

\* Mutant: the loop stops one page short of the bound.
ShouldRecurseStopsEarly(pgs, link) ==
  ~pagesHas(pgs, link) /\ pagesSize(pgs) + 1 < options.maxPages

ShouldRecurse(pgs, link) ==
  ~pagesHas(pgs, link) /\ pagesSize(pgs) < options.maxPages

\* Mutant: a failed fetch also abandons the caller's loop.
AfterFailedFetchAbortsParent(stk) == SubSeq(stk, 1, Len(stk) - 2)

\* metadata === null: the function returns; nothing was thrown, so the
\* catch block that would push a CrawlError is not entered.
AfterFailedFetch(stk) == Pop(stk)

\* Mutant: the loop does not advance.
RestLinksStuck(links) == links

\* for (const link of metadata.links.internal): what is left after this one
RestLinks(links) == Tail(links)

(* ------------------------------- actions ------------------------------- *)
NoInput == [fn |-> "none"]
NoFile == [exists |-> FALSE]
UtilIdle == input = NoInput /\ output = NoInput
LinkIdle ==
  /\ linkOptions = NoInput
  /\ crawlFile = NoFile
  /\ allLinks = <<>>
  /\ linksLeft = <<>>
  /\ brokenLinks = <<>>
  /\ workingCount = 0
  /\ linkResult = NoResult
  /\ probes = <<>>
BrowserIdle ==
  /\ browser = "none"
  /\ shown = 0
  /\ workLeft = <<>>
  /\ shots = <<>>
  /\ attempts = <<>>

Init ==
  /\ options \in Options
  /\ siteRobots \in RobotsDocs
  /\ site = AnySite
  /\ pc = "start"
  /\ pages = EmptyMap
  /\ errors = <<>>
  /\ sitemapFound = FALSE
  /\ sitemapPages = <<>>
  /\ sitemapQueue = <<>>
  /\ canCrawlFn = PermitAll
  /\ stack = <<>>
  /\ crawlData = NoResult
  /\ fetched = {}
  /\ fetchCount = [u \in AllUrls |-> 0]
  /\ insertCount = [u \in AllUrls |-> 0]
  /\ candidates = {}
  /\ recursiveInvoked = FALSE
  /\ delays = {}
  /\ network = {}
  /\ UtilIdle
  /\ LinkIdle
  /\ BrowserIdle

\* crawlWebsite, lines 43-45: the seed is validated before anything else.
Start ==
  /\ pc = "start"
  /\ pc' = IF isValidUrl(options.url) THEN "sitemap" ELSE "thrown"
  /\ UNCHANGED <<config, pages, errors, sitemapFound, sitemapPages, sitemapQueue, canCrawlFn,
                 stack, crawlData, history, recursiveInvoked>>
  /\ UNCHANGED <<utilVars, linkVars, browserVars>>
  /\ UNCHANGED network

\* crawlWebsite, lines 56-60: fetchSitemap and the choice of path.
SitemapFetch ==
  /\ pc = "sitemap"
  /\ \E ok \in BOOLEAN, entries \in SitemapEntries :
       /\ sitemapPages' = IF ok THEN fetchSitemap(entries, sitemapUrlOf(options.url))
                          ELSE <<>>
       /\ IF Len(sitemapPages') > 0
          THEN /\ sitemapFound' = TRUE
               /\ sitemapQueue' = SitemapSlice(sitemapPages', options.maxPages)
               /\ pc' = "sitemapLoop"
          ELSE /\ pc' = "robots"
               /\ UNCHANGED <<sitemapFound, sitemapQueue>>
  /\ UNCHANGED <<config, pages, errors, canCrawlFn, stack, crawlData, fetched, fetchCount,
                 insertCount, candidates, recursiveInvoked>>
  /\ UNCHANGED <<utilVars, linkVars, browserVars>>
  \* fetchSitemap, line 121: axios.get with no sleep before it
  /\ delays' = delays \cup {[request |-> "sitemap", sleeps |-> 0]}
  /\ network' = network \cup {"sitemap"}

\* crawlWebsite, lines 61-66: one iteration of the sitemap loop.
SitemapCrawlPage ==
  /\ pc = "sitemapLoop"
  /\ sitemapQueue # <<>>
  /\ LET pageUrl == Head(sitemapQueue) IN
       /\ sitemapQueue' = Tail(sitemapQueue)
       /\ fetchCount' = Bump(fetchCount, pageUrl)
       /\ \/ \E hrefs \in PageResponses :
               /\ pages' = pagesSet(pages, pageUrl, crawlPage(pageUrl, hrefs))
               /\ insertCount' = Bump(insertCount, pageUrl)
               /\ fetched' = fetched \cup
                    {[url |-> pageUrl, depth |-> 0, ok |-> TRUE, path |-> "sitemap"]}
          \/ /\ fetched' = fetched \cup
                    {[url |-> pageUrl, depth |-> 0, ok |-> FALSE, path |-> "sitemap"]}
             /\ UNCHANGED <<pages, insertCount>>
  /\ UNCHANGED <<config, pc, errors, sitemapFound, sitemapPages, canCrawlFn, stack,
                 crawlData, candidates, recursiveInvoked>>
  /\ UNCHANGED <<utilVars, linkVars, browserVars>>
  \* crawlPage(pageUrl, domain, rateLimit), lines 219-221: one sleep for the
  \* positive rateLimit of a rate-limited crawl
  /\ delays' = delays \cup {[request |-> "sitemap page", sleeps |-> 1]}
  /\ network' = network \cup {"page"}

SitemapLoopEnd ==
  /\ pc = "sitemapLoop"
  /\ sitemapQueue = <<>>
  /\ pc' = "save"
  /\ UNCHANGED <<config, pages, errors, sitemapFound, sitemapPages, sitemapQueue, canCrawlFn,
                 stack, crawlData, history, recursiveInvoked>>
  /\ UNCHANGED <<utilVars, linkVars, browserVars>>
  /\ UNCHANGED network

\* crawlWebsite, lines 73-89: robots fetch, choice of canCrawlFn, first call.
RobotsFetch ==
  /\ pc = "robots"
  /\ ~sitemapFound
  /\ \E ok \in BOOLEAN :
       LET robotsTxt == IF ok THEN siteRobots ELSE EmptyRobots IN
         IF options.respectRobotsTxt /\ parseRobotsThrows(robotsTxt, "Googlebot")
         THEN \* the SyntaxError reaches crawlWebsite's catch, lines 107-116
              /\ errors' = Append(errors, [url |-> options.url])
              /\ pc' = "thrown"
              /\ UNCHANGED <<canCrawlFn, stack, recursiveInvoked>>
         ELSE /\ canCrawlFn' = IF options.respectRobotsTxt
                               THEN parseRobotsText(robotsTxt, "Googlebot")
                               ELSE PermitAll
              /\ stack' = <<Frame(options.url, 0)>>
              /\ recursiveInvoked' = TRUE
              /\ pc' = "recursive"
              /\ UNCHANGED errors
  /\ UNCHANGED <<config, pages, sitemapFound, sitemapPages, sitemapQueue, crawlData,
                 fetched, fetchCount, insertCount, candidates>>
  /\ UNCHANGED <<utilVars, linkVars, browserVars>>
  \* fetchRobotsTxt, line 142: axios.get with no sleep before it
  /\ delays' = delays \cup {[request |-> "robots", sleeps |-> 0]}
  /\ network' = network \cup {"robots"}

\* recursiveCrawl, lines 160-176: the checks made before any work.
RecEnter ==
  /\ pc = "recursive"
  /\ stack # <<>>
  /\ Top.at = "entry"
  /\ stack' = IF \/ StopCondition(Top.depth, pages)
                 \/ pagesHas(pages, Top.pageUrl)
                 \/ PolicyRejects(canCrawlFn, Top.pageUrl)
              THEN Pop(stack)
              ELSE SetTop(stack, [Top EXCEPT !.at = "fetch"])
  /\ UNCHANGED <<config, pc, pages, errors, sitemapFound, sitemapPages, sitemapQueue, canCrawlFn,
                 crawlData, history, recursiveInvoked>>
  /\ UNCHANGED <<utilVars, linkVars, browserVars>>
  /\ UNCHANGED network

\* recursiveCrawl, lines 181-185: sleep, crawlPage, pages.set.
RecFetch ==
  /\ pc = "recursive"
  /\ stack # <<>>
  /\ Top.at = "fetch"
  /\ fetchCount' = Bump(fetchCount, Top.pageUrl)
  /\ \/ \E hrefs \in ResponsesTo(Top.pageUrl) :
          LET metadata == crawlPage(Top.pageUrl, hrefs) IN
            /\ pages' = pagesSet(pages, Top.pageUrl, metadata)
            /\ insertCount' = Bump(insertCount, Top.pageUrl)
            /\ fetched' = fetched \cup
                 {[url |-> Top.pageUrl, depth |-> Top.depth, ok |-> TRUE,
                   path |-> "recursive"]}
            /\ stack' = SetTop(stack, [Top EXCEPT !.at = "loop",
                                                  !.links = metadata.links.internal])
     \/ /\ fetched' = fetched \cup
             {[url |-> Top.pageUrl, depth |-> Top.depth, ok |-> FALSE,
               path |-> "recursive"]}
        /\ stack' = AfterFailedFetch(stack)
        /\ UNCHANGED <<pages, insertCount>>
  /\ UNCHANGED <<config, pc, errors, sitemapFound, sitemapPages, sitemapQueue, canCrawlFn,
                 crawlData, candidates, recursiveInvoked>>
  /\ UNCHANGED <<utilVars, linkVars, browserVars>>
  \* line 181 sleeps; crawlPage(pageUrl, domain, 0) at line 182 does not
  /\ delays' = delays \cup {[request |-> "recursive page", sleeps |-> 1]}
  /\ network' = network \cup {"page"}

\* recursiveCrawl, lines 188-202: one iteration of the loop over the links.
RecLoop ==
  /\ pc = "recursive"
  /\ stack # <<>>
  /\ Top.at = "loop"
  /\ Top.links # <<>>
  /\ LET link == Head(Top.links)
         rest == SetTop(stack, [Top EXCEPT !.links = RestLinks(Top.links)])
     IN /\ candidates' = candidates \cup {[parent |-> Top.pageUrl, link |-> link]}
        /\ stack' = IF ShouldRecurse(pages, link)
                    THEN Append(rest, Frame(link, Top.depth + 1))
                    ELSE rest
  /\ UNCHANGED <<config, pc, pages, errors, sitemapFound, sitemapPages, sitemapQueue, canCrawlFn,
                 crawlData, fetched, fetchCount, insertCount, recursiveInvoked, delays>>
  /\ UNCHANGED <<utilVars, linkVars, browserVars>>
  /\ UNCHANGED network

\* recursiveCrawl: the loop is over and the call returns.
RecReturn ==
  /\ pc = "recursive"
  /\ stack # <<>>
  /\ Top.at = "loop"
  /\ Top.links = <<>>
  /\ stack' = Pop(stack)
  /\ UNCHANGED <<config, pc, pages, errors, sitemapFound, sitemapPages, sitemapQueue, canCrawlFn,
                 crawlData, history, recursiveInvoked>>
  /\ UNCHANGED <<utilVars, linkVars, browserVars>>
  /\ UNCHANGED network

\* crawlWebsite: the outermost recursiveCrawl has returned.
RecDone ==
  /\ pc = "recursive"
  /\ stack = <<>>
  /\ pc' = "save"
  /\ UNCHANGED <<config, pages, errors, sitemapFound, sitemapPages, sitemapQueue, canCrawlFn,
                 stack, crawlData, history, recursiveInvoked>>
  /\ UNCHANGED <<utilVars, linkVars, browserVars>>
  /\ UNCHANGED network

\* crawlWebsite, lines 93-106: the CrawlResult is built, written and returned.
Save ==
  /\ pc = "save"
  /\ crawlData' = [returned |-> TRUE,
                   startUrl |-> options.url,
                   pages |-> DOMAIN pages,
                   sitemapFound |-> sitemapFound,
                   totalPages |-> pagesSize(pages),
                   errors |-> errors]
  /\ pc' = "done"
  /\ UNCHANGED <<config, pages, errors, sitemapFound, sitemapPages, sitemapQueue, canCrawlFn,
                 stack, history, recursiveInvoked>>
  /\ UNCHANGED <<utilVars, linkVars, browserVars>>
  /\ UNCHANGED network

Next ==
  \/ Start
  \/ SitemapFetch
  \/ SitemapCrawlPage
  \/ SitemapLoopEnd
  \/ RobotsFetch
  \/ RecEnter
  \/ RecFetch
  \/ RecLoop
  \/ RecReturn
  \/ RecDone
  \/ Save

Spec == Init /\ [][Next]_vars

\* Every awaited request settles and the event loop runs the continuation.
FairSpec == Spec /\ WF_vars(Next)

(* ------------------- recursive crawl of a fixed site ------------------- *)
\* crawlWebsite at line 79, about to call recursiveCrawl for the seed: the
\* site has no sitemap and robots compliance is off.
InitRecursive ==
  /\ options \in [url : {UrlOf(<<"https://", "a.com", "/">>)},
                  maxDepth : 0..MaxDepthBound,
                  maxPages : 1..(MaxPagesBound + 1),
                  respectRobotsTxt : {FALSE}]
  /\ siteRobots = EmptyRobots
  /\ site \in SinglePageSites \cup LinkedSites
  /\ pc = "recursive"
  /\ pages = EmptyMap
  /\ errors = <<>>
  /\ sitemapFound = FALSE
  /\ sitemapPages = <<>>
  /\ sitemapQueue = <<>>
  /\ canCrawlFn = PermitAll
  /\ stack = <<Frame(options.url, 0)>>
  /\ crawlData = NoResult
  /\ fetched = {}
  /\ fetchCount = [u \in {options.url} |-> 0]
  /\ insertCount = [u \in {options.url} |-> 0]
  /\ candidates = {}
  /\ recursiveInvoked = TRUE
  /\ delays = {[request |-> "sitemap", sleeps |-> 0], [request |-> "robots", sleeps |-> 0]}
  /\ network = {"sitemap", "robots"}
  /\ UtilIdle
  /\ LinkIdle
  /\ BrowserIdle

NextRecursive ==
  \/ RecEnter
  \/ RecFetch
  \/ RecLoop
  \/ RecReturn
  \/ RecDone
  \/ Save

SpecRecursive == InitRecursive /\ [][NextRecursive]_vars

(* ------------------- parseRobotsText as a function --------------------- *)
\* No crawl is running.
CrawlIdle ==
  /\ options = [url |-> SeedUrl, maxDepth |-> 0, maxPages |-> 1, respectRobotsTxt |-> FALSE]
  /\ siteRobots = EmptyRobots
  /\ site = AnySite
  /\ pages = EmptyMap
  /\ errors = <<>>
  /\ sitemapFound = FALSE
  /\ sitemapPages = <<>>
  /\ sitemapQueue = <<>>
  /\ canCrawlFn = PermitAll
  /\ stack = <<>>
  /\ crawlData = NoResult
  /\ fetched = {}
  /\ fetchCount = [u \in AllUrls |-> 0]
  /\ insertCount = [u \in AllUrls |-> 0]
  /\ candidates = {}
  /\ recursiveInvoked = FALSE
  /\ delays = {}
  /\ network = {}

RobotsAgents == {"*", "Googlebot", "Bingbot"}
RobotsPatterns == {<<>>, PathA, <<"/", "*">>, <<"/", "(">>}
RobotsLines ==
  {Line("User-agent", a) : a \in RobotsAgents} \cup
  {Line(f, v) : f \in {"Allow", "Disallow"}, v \in RobotsPatterns}
RobotsTexts == SeqsUpTo(RobotsLines, MaxRobotsLines)
RobotsInputs ==
  [fn : {"parseRobotsText"}, robotsContent : RobotsTexts,
   userAgent : {"*", "Googlebot"}, path : {RootPath, PathA, PathB}]

InitRobots ==
  /\ pc = "call"
  /\ input \in RobotsInputs
  /\ output = NoInput
  /\ CrawlIdle
  /\ LinkIdle
  /\ BrowserIdle

\* parseRobotsText(robotsContent, userAgent): the rule set, or the exception.
ParseRobotsCall ==
  /\ pc = "call"
  /\ input.fn = "parseRobotsText"
  /\ IF parseRobotsThrows(input.robotsContent, input.userAgent)
     THEN /\ pc' = "thrown"
          /\ output' = [fn |-> "parseRobotsText", threw |-> TRUE]
     ELSE /\ pc' = "parsed"
          /\ output' = [fn |-> "parseRobotsText", threw |-> FALSE,
                        rules |-> parseRobotsText(input.robotsContent, input.userAgent)]
  /\ UNCHANGED <<input, crawlVars, network, linkVars, browserVars>>

\* result.canCrawl(path)
CanCrawlCall ==
  /\ pc = "parsed"
  /\ pc' = "returned"
  /\ output' = [fn |-> "canCrawl", threw |-> FALSE, rules |-> output.rules,
                answer |-> canCrawl(output.rules, input.path)]
  /\ UNCHANGED <<input, crawlVars, network, linkVars, browserVars>>

NextRobots ==
  \/ ParseRobotsCall
  \/ CanCrawlCall

SpecRobots == InitRobots /\ [][NextRobots]_vars

(* ------------------- findOrphanedPages as a function ------------------- *)
\* URL strings as findOrphanedPages compares them (with !== and Set.has):
\* character for character, so scheme, www prefix and a trailing slash all
\* count.  path = <<>> is the string without a trailing slash.
UrlString(scheme, www, host, path) ==
  [scheme |-> scheme, www |-> www, host |-> host, path |-> path]

\* new URL(url).hostname.replace(/www\./, ''): a hostname, kept as the pair
\* (www prefix, rest).
extractDomain(u) ==
  IF u.host = "" THEN [www |-> FALSE, host |-> "unknown-domain"]
  ELSE [www |-> FALSE, host |-> u.host]

RECURSIVE SetToSeq(_)
SetToSeq(S) ==
  IF S = {} THEN <<>>
  ELSE LET x == CHOOSE y \in S : TRUE IN <<x>> \o SetToSeq(S \ {x})

\* Seeds a crawl may have been started from, and the crawl-results.json it
\* leaves: the seed's page first, then the other pages found.
OrphanSeeds ==
  {UrlString(sc, w, SeedHost, p) :
     sc \in {"https", "http"}, w \in BOOLEAN, p \in {<<>>, RootPath}}
SubPage(seed, p) == UrlString(seed.scheme, seed.www, seed.host, p)
CrawlFile(seed, others, linksOf) ==
  [exists |-> TRUE,
   startUrl |-> seed,
   pages |-> [i \in 1..(1 + Len(others)) |->
                LET u == IF i = 1 THEN seed ELSE others[i - 1]
                IN [url |-> u, links |-> [internal |-> SetToSeq(linksOf[u])]]]]

findOrphanedPages(domain, file) ==
  IF ~file.exists THEN <<>>
  ELSE LET allUrls == ArrayFromSet([i \in 1..Len(file.pages) |-> file.pages[i].url])
           referencedUrls ==
             UNION {Range(file.pages[i].links.internal) : i \in 1..Len(file.pages)}
           baseUrl == UrlString("https", domain.www, domain.host, <<>>)
       IN SelectSeq(allUrls, LAMBDA url : url # baseUrl /\ url \notin referencedUrls)

InitOrphans ==
  /\ pc = "call"
  /\ \E seed \in OrphanSeeds :
       \/ input = [fn |-> "findOrphanedPages", domain |-> extractDomain(seed),
                   file |-> NoFile]
       \/ \E others \in {<<>>, <<SubPage(seed, PathA)>>,
                          <<SubPage(seed, PathA), SubPage(seed, PathB)>>} :
            \E linksOf \in [{seed} \cup Range(others) ->
                               SUBSET {seed, SubPage(seed, PathA), SubPage(seed, PathB)}] :
              input = [fn |-> "findOrphanedPages", domain |-> extractDomain(seed),
                       file |-> CrawlFile(seed, others, linksOf)]
  /\ output = NoInput
  /\ CrawlIdle
  /\ LinkIdle
  /\ BrowserIdle

FindOrphanedPagesCall ==
  /\ pc = "call"
  /\ input.fn = "findOrphanedPages"
  /\ pc' = "returned"
  /\ output' = [fn |-> "findOrphanedPages",
                value |-> findOrphanedPages(input.domain, input.file)]
  /\ UNCHANGED <<input, crawlVars, network, linkVars, browserVars>>

NextOrphans == FindOrphanedPagesCall

SpecOrphans == InitOrphans /\ [][NextOrphans]_vars

(* ----------------------- normalizeUrl as a function --------------------- *)
InitNormalize ==
  /\ pc = "call"
  /\ input \in [fn : {"normalizeUrl"}, url : UrlTexts, baseUrl : BaseUrls]
  /\ output = NoInput
  /\ CrawlIdle
  /\ LinkIdle
  /\ BrowserIdle

NormalizeUrlCall ==
  /\ pc = "call"
  /\ input.fn = "normalizeUrl"
  /\ pc' = "returned"
  /\ output' = [fn |-> "normalizeUrl", value |-> normalizeUrl(input.url, input.baseUrl)]
  /\ UNCHANGED <<input, crawlVars, network, linkVars, browserVars>>

NextNormalize == NormalizeUrlCall

SpecNormalize == InitNormalize /\ [][NextNormalize]_vars

(* --------------------------- checkBrokenLinks -------------------------- *)
NoDomain == [www |-> FALSE, host |-> ""]
SeedDomain == [www |-> FALSE, host |-> SeedHost]

CheckLinksOptions ==
  [urls : SeqsUpTo({UrlA, UrlX, BadUrl}, MaxUrls),
   domain : {NoDomain, SeedDomain},
   useCrawlData : BOOLEAN,
   checkExternal : BOOLEAN]

\* crawl-results.json files a crawl may have left for the domain.
PageRec(u, int, ext) == [url |-> u, links |-> [internal |-> int, external |-> ext]]
FileOf(pgs) == [exists |-> TRUE, startUrl |-> SeedUrl, pages |-> pgs]
LinkFiles ==
  {NoFile,
   FileOf(<<>>),
   FileOf(<<PageRec(SeedUrl, <<UrlA>>, <<UrlX>>)>>),
   FileOf(<<PageRec(SeedUrl, <<UrlA, UrlB>>, <<UrlX>>),
            PageRec(UrlA, <<UrlB>>, <<UrlX>>)>>)}

\* lines 41-48: the domain the check runs for ('' when none can be told)
DomainOf(opts) ==
  IF Len(opts.urls) > 0 THEN extractDomain(opts.urls[1])
  ELSE opts.domain

RECURSIVE PageLinks(_, _)
PageLinks(pgs, checkExternal) ==
  IF pgs = <<>> THEN <<>>
  ELSE pgs[1].links.internal
         \o (IF checkExternal THEN pgs[1].links.external ELSE <<>>)
         \o PageLinks(Tail(pgs), checkExternal)

\* Mutant: external links are collected whatever checkExternal says.
CollectLinksAlwaysExternal(opts, file) ==
  ArrayFromSet((IF opts.useCrawlData /\ file.exists
                THEN PageLinks(file.pages, TRUE) ELSE <<>>) \o opts.urls)

\* lines 57-79: allLinks.add for the crawl data's links, then for urls
CollectLinks(opts, file) ==
  ArrayFromSet((IF opts.useCrawlData /\ file.exists
                THEN PageLinks(file.pages, opts.checkExternal) ELSE <<>>) \o opts.urls)

\* Mutant: an empty candidate set is not noticed.
NoLinksNever(links) == FALSE

\* line 81: allLinks.size === 0
NoLinks(links) == Len(links) = 0

\* What a HEAD request may come to: a response (any status, since
\* validateStatus accepts all), or an exception with its code and message.
ProbeOutcomes ==
  {[kind |-> "response", status |-> 200, sameRequestUrl |-> TRUE, code |-> "", message |-> <<>>],
   [kind |-> "response", status |-> 301, sameRequestUrl |-> FALSE, code |-> "", message |-> <<>>],
   [kind |-> "response", status |-> 404, sameRequestUrl |-> TRUE, code |-> "", message |-> <<>>],
   [kind |-> "response", status |-> 404, sameRequestUrl |-> FALSE, code |-> "", message |-> <<>>],
   [kind |-> "error", status |-> 0, sameRequestUrl |-> TRUE, code |-> "ECONNABORTED",
    message |-> <<"timeout", "exceeded">>],
   [kind |-> "error", status |-> 0, sameRequestUrl |-> TRUE, code |-> "ETIMEDOUT",
    message |-> <<"socket", "timeout">>],
   [kind |-> "error", status |-> 0, sameRequestUrl |-> TRUE, code |-> "ECONNREFUSED",
    message |-> <<"connect", "ECONNREFUSED">>]}

\* String.prototype.includes, on messages kept as sequences of words
includes(message, word) == word \in Range(message)

\* Mutant: every status below 500 counts as working.
IsWorkingStatusBelow500(status) == status >= 200 /\ status < 500

\* line 167
IsWorkingStatus(status) == status >= 200 /\ status < 400

\* Mutant: a timeout is reported like any other error.
TimeoutStatusAsError(url) ==
  [url |-> url, status |-> 0, statusText |-> "Error", isWorking |-> FALSE,
   redirectChainLength |-> 0, error |-> <<"Error">>]

\* lines 192-200
TimeoutStatus(url) ==
  [url |-> url, status |-> 0, statusText |-> "Timeout", isWorking |-> FALSE,
   redirectChainLength |-> 0, error |-> <<"Request", "timeout">>]

\* Mutant: the hops of the chain are counted.
RedirectChainLengthHops(o) == IF o.sameRequestUrl THEN 0 ELSE 3

\* lines 168-176: 1 when response.request.url is not the url asked for
RedirectChainLength(o) == IF o.sameRequestUrl THEN 0 ELSE 1

\* checkLink(url, timeout) when the request comes to outcome o; error = <<>>
\* stands for an absent error field.
checkLink(url, o) ==
  IF o.kind = "response"
  THEN [url |-> url, status |-> o.status, statusText |-> "",
        isWorking |-> IsWorkingStatus(o.status),
        redirectChainLength |-> RedirectChainLength(o),
        error |-> <<>>]
  ELSE IF o.code = "ECONNABORTED" \/ includes(o.message, "timeout")
  THEN TimeoutStatus(url)
  ELSE [url |-> url, status |-> 0, statusText |-> "Error", isWorking |-> FALSE,
        redirectChainLength |-> 0, error |-> o.message]

\* isSameDomain(url, domain) is handed the bare hostname: new URL rejects
\* it, as it rejects every string without a scheme.
HostnameAsUrl(domain) == MkUrl("", <<>>)

\* lines 122-126
Summary(broken) ==
  [total404 |-> Len(SelectSeq(broken, LAMBDA l : l.status = 404)),
   totalTimeouts |-> Len(SelectSeq(broken, LAMBDA l : includes(l.error, "timeout"))),
   totalRedirectChains |-> Len(SelectSeq(broken, LAMBDA l : l.redirectChainLength > 2))]

\* The crawl file's URLs as the strings findOrphanedPages compares.
AsString(u) == UrlString("https", FALSE, u.host, u.path)
FileAsStrings(file) ==
  IF ~file.exists THEN file
  ELSE [exists |-> TRUE, startUrl |-> AsString(file.startUrl),
        pages |-> [i \in 1..Len(file.pages) |->
                     [url |-> AsString(file.pages[i].url),
                      links |-> [internal |->
                        [j \in 1..Len(file.pages[i].links.internal) |->
                           AsString(file.pages[i].links.internal[j])]]]]]

InitLinks ==
  /\ pc = "lstart"
  /\ linkOptions \in CheckLinksOptions
  /\ crawlFile \in LinkFiles
  /\ allLinks = <<>>
  /\ linksLeft = <<>>
  /\ brokenLinks = <<>>
  /\ workingCount = 0
  /\ linkResult = NoResult
  /\ probes = <<>>
  /\ CrawlIdle
  /\ UtilIdle
  /\ BrowserIdle

\* checkBrokenLinks, lines 41-83: domain, candidate set, the two throws.
LinkStart ==
  /\ pc = "lstart"
  /\ IF DomainOf(linkOptions).host = ""
     THEN /\ pc' = "thrown"
          /\ UNCHANGED <<allLinks, linksLeft>>
     ELSE LET links == CollectLinks(linkOptions, crawlFile) IN
            IF NoLinks(links)
            THEN /\ pc' = "thrown"
                 /\ UNCHANGED <<allLinks, linksLeft>>
            ELSE /\ pc' = "probe"
                 /\ allLinks' = links
                 /\ linksLeft' = links
  /\ UNCHANGED <<linkOptions, crawlFile, brokenLinks, workingCount, linkResult, probes,
                 crawlVars, network, utilVars, browserVars>>

\* checkBrokenLinks, lines 90-119: one iteration of the loop over allLinks.
Probe ==
  /\ pc = "probe"
  /\ linksLeft # <<>>
  /\ \E o \in ProbeOutcomes :
       LET url == Head(linksLeft)
           isInternal == isSameDomain(url, HostnameAsUrl(DomainOf(linkOptions)))
           timeout == IF isInternal THEN "DEFAULT_TIMEOUT" ELSE "externalTimeout"
           status == checkLink(url, o)
       IN /\ probes' = Append(probes, [url |-> url, timeout |-> timeout, outcome |-> o])
          /\ IF status.isWorking
             THEN workingCount' = workingCount + 1 /\ UNCHANGED brokenLinks
             ELSE brokenLinks' = Append(brokenLinks, status) /\ UNCHANGED workingCount
  /\ linksLeft' = Tail(linksLeft)
  /\ network' = network \cup {"probe"}
  /\ UNCHANGED <<pc, linkOptions, crawlFile, allLinks, linkResult, crawlVars, utilVars,
                 browserVars>>

\* checkBrokenLinks, lines 121-150: summary, result, broken-links.json.
LinkFinish ==
  /\ pc = "probe"
  /\ linksLeft = <<>>
  /\ linkResult' = [returned |-> TRUE,
                    domain |-> DomainOf(linkOptions),
                    brokenLinks |-> brokenLinks,
                    workingLinks |-> workingCount,
                    totalChecked |-> Len(allLinks),
                    orphanedPages |-> findOrphanedPages(DomainOf(linkOptions),
                                                        FileAsStrings(crawlFile)),
                    summary |-> Summary(brokenLinks)]
  /\ pc' = "done"
  /\ UNCHANGED <<linkOptions, crawlFile, allLinks, linksLeft, brokenLinks, workingCount,
                 probes, crawlVars, network, utilVars, browserVars>>

NextLinks ==
  \/ LinkStart
  \/ Probe
  \/ LinkFinish

SpecLinks == InitLinks /\ [][NextLinks]_vars

\* Either tool is called.
InitTools == Init \/ InitLinks
NextTools == Next \/ NextLinks
SpecTools == InitTools /\ [][NextTools]_vars

(* ----------------------------- browser tools --------------------------- *)
\* captureScreenshots, captureScreenshot, capturePresentationScreenshots and
\* runAccessibilityAudit: validation, chromium.launch, a loop over the work
\* items with a try/catch around each, and the finally that closes the
\* browser.  An optional argument is a sequence of length 0 or 1.
BrowserInputs ==
  [fn : {"capturePresentationScreenshots"}, exists : BOOLEAN, html : BOOLEAN]
    \cup [fn : {"captureScreenshots"},
          url : SeqsUpTo({SeedUrl}, 1),
          urls : SeqsUpTo({UrlA, UrlB}, MaxCaptureUrls),
          viewports : {SubSeq(<<"desktop", "tablet", "mobile">>, 1, n) : n \in 1..MaxViewports},
          useCrawlData : BOOLEAN,
          file : LinkFiles]
    \cup [fn : {"captureScreenshot"}, pageUrl : {SeedUrl, BadUrl}, viewports : {<<"desktop">>}]
    \cup [fn : {"runAccessibilityAudit"},
          url : SeqsUpTo({SeedUrl}, 1),
          urls : SeqsUpTo({UrlA, UrlB}, MaxCaptureUrls)]

\* String(i).padStart(2, '0') for i < 100, as its decimal digits
padStart(i) == IF i < 10 THEN <<0, i>> ELSE <<i \div 10, i % 10>>

\* captureScreenshots, lines 53-69: o.file is what readJsonFile returns for
\* the domain of url || urls[0]
urlsToCapture(o) ==
  LET fromCrawl == IF o.useCrawlData /\ (o.url # <<>> \/ Len(o.urls) > 0) /\ o.file.exists
                   THEN [i \in 1..Len(o.file.pages) |-> o.file.pages[i].url]
                   ELSE <<>>
  IN IF Len(o.urls) > 0 THEN o.urls
     ELSE IF o.url # <<>> THEN o.url
     ELSE fromCrawl

\* The checks that throw before chromium.launch.
InvalidCall(o) ==
  CASE o.fn = "capturePresentationScreenshots" -> ~o.exists \/ ~o.html
    [] o.fn = "captureScreenshots" -> Len(urlsToCapture(o)) = 0
    [] o.fn = "captureScreenshot" -> ~isValidUrl(o.pageUrl)
    [] o.fn = "runAccessibilityAudit" -> o.url = <<>> /\ Len(o.urls) = 0

\* What the loops iterate over, in order: the slides 0..totalSlides-1; the
\* urls to capture under each viewport (first marks the item before which
\* the viewport's context and page are opened); the one page; the urls to
\* audit.
WorkItems(o, totalSlides) ==
  CASE o.fn = "capturePresentationScreenshots" ->
         [k \in 1..totalSlides |-> [slide |-> k - 1]]
    [] o.fn = "captureScreenshots" ->
         LET us == urlsToCapture(o)
             n == Len(us)
         IN [k \in 1..(Len(o.viewports) * n) |->
               [viewport |-> o.viewports[((k - 1) \div n) + 1],
                url |-> us[((k - 1) % n) + 1],
                first |-> (k - 1) % n = 0]]
    [] o.fn = "captureScreenshot" ->
         <<[viewport |-> o.viewports[1], url |-> o.pageUrl, first |-> TRUE]>>
    [] o.fn = "runAccessibilityAudit" ->
         LET us == IF Len(o.urls) > 0 THEN o.urls ELSE o.url
         IN [k \in 1..Len(us) |-> [url |-> us[k]]]

\* Mutant: the browser is left open.
FinallyLeaksBrowser(b) == b

\* finally { if (browser) { await browser.close(); } }
Finally(b) == IF b = "open" THEN "closed" ELSE b

InitBrowser ==
  /\ pc = "call"
  /\ input \in BrowserInputs
  /\ output = NoInput
  /\ CrawlIdle
  /\ LinkIdle
  /\ BrowserIdle

\* Up to the loop: validation, chromium.launch and, for a presentation,
\* goto, the wait for Reveal and getTotalSlides.
ToolStart ==
  /\ pc = "call"
  /\ input \in BrowserInputs
  /\ IF InvalidCall(input)
     THEN /\ pc' = "rejected"
          /\ UNCHANGED <<browser, workLeft>>
     ELSE \E launched \in BOOLEAN, ready \in BOOLEAN, totalSlides \in 0..MaxSlides :
            IF ~launched
            THEN \* only runAccessibilityAudit catches the failure of launch
                 /\ pc' = IF input.fn = "runAccessibilityAudit" THEN "loop" ELSE "rejected"
                 /\ UNCHANGED <<browser, workLeft>>
            ELSE IF input.fn = "capturePresentationScreenshots" /\ ~ready
            THEN /\ pc' = "rejected"
                 /\ browser' = Finally("open")
                 /\ UNCHANGED workLeft
            ELSE /\ pc' = "loop"
                 /\ browser' = "open"
                 /\ workLeft' = WorkItems(input, totalSlides)
  /\ UNCHANGED <<input, output, shown, shots, attempts, crawlVars, network, linkVars>>

\* One iteration of the loop.  ok: the item's result is pushed; fail: an
\* exception reaches the catch of the iteration before the push; next
\* failed: the screenshot is pushed and Reveal.next() throws into the same
\* catch; fatal: the viewport's context or page cannot be opened, outside
\* any catch.
ToolStep ==
  /\ pc = "loop"
  /\ workLeft # <<>>
  /\ LET item == Head(workLeft)
         isSlide == input.fn = "capturePresentationScreenshots"
         pushed == {"ok", "next failed"}
     IN \E outcome \in {"ok", "fail"}
                        \cup (IF input.fn = "captureScreenshots" /\ item.first
                              THEN {"fatal"} ELSE {})
                        \cup (IF isSlide /\ Len(workLeft) > 1
                              THEN {"next failed"} ELSE {}) :
          /\ attempts' = Append(attempts, [item |-> item, outcome |-> outcome])
          /\ shots' = IF outcome \notin pushed THEN shots
                      ELSE IF isSlide
                      THEN Append(shots, [slideNumber |-> item.slide,
                                          file |-> [prefix |-> "slide-",
                                                    number |-> padStart(item.slide),
                                                    ext |-> ".png"],
                                          shows |-> shown])
                      ELSE Append(shots, item)
          \* Reveal.next() follows the push, inside the same try
          /\ shown' = IF isSlide /\ outcome = "ok" /\ Len(workLeft) > 1
                      THEN shown + 1 ELSE shown
          /\ IF outcome = "fatal" \/ (input.fn = "captureScreenshot" /\ outcome = "fail")
             THEN pc' = "rejected" /\ browser' = Finally(browser)
             ELSE UNCHANGED <<pc, browser>>
  /\ workLeft' = Tail(workLeft)
  /\ UNCHANGED <<input, output, crawlVars, network, linkVars>>

\* After the loop: the result is built and written, the finally runs, and
\* the function returns, or rejects when closing or writing threw.
ToolFinish ==
  /\ pc = "loop"
  /\ workLeft = <<>>
  /\ \E ok \in BOOLEAN :
       /\ pc' = IF ok THEN "returned" ELSE "rejected"
       /\ output' = IF ok
                    THEN [fn |-> input.fn, results |-> shots, totalCaptured |-> Len(shots)]
                    ELSE output
  /\ browser' = Finally(browser)
  /\ UNCHANGED <<input, shown, workLeft, shots, attempts, crawlVars, network, linkVars>>

NextBrowser ==
  \/ ToolStart
  \/ ToolStep
  \/ ToolFinish

SpecBrowser == InitBrowser /\ [][NextBrowser]_vars

(* ------------------------------ properties ----------------------------- *)
Keys == DOMAIN pages
InternalLinks(p) == Range(pages[p].links.internal)
OnRecursivePath(f) == f.path = "recursive"
Permitted(rules, u) == isValidUrl(u) /\ canCrawl(rules, u.path)
SitePolicy == parseRobotsText(siteRobots, "Googlebot")
SitemapTaken == Min(Len(sitemapPages), options.maxPages)

\* C1: in every reachable state of a crawl, on the sitemap path and on the
\* recursive path, the Page Graph has at most maxPages keys.
C1_PageBound == Cardinality(Keys) <= options.maxPages

\* The page bound is what stopped a recursive crawl: the graph is full and a
\* permitted link of a stored page is left out of it.
C1_Witness ==
  /\ pc = "done"
  /\ recursiveInvoked
  /\ Cardinality(Keys) = options.maxPages
  /\ \E c \in candidates : c.link \notin Keys /\ Permitted(canCrawlFn, c.link)

\* C2: in a recursive crawl the seed is processed at depth 0, every call is
\* one level deeper than its caller, every page is inserted at a depth in
\* 0..maxDepth, and no fetch is issued at a depth greater than maxDepth.
C2_DepthBound ==
  /\ stack # <<>> => stack[1].pageUrl = options.url
  /\ \A i \in 1..Len(stack) : stack[i].depth = i - 1
  /\ \A i \in 1..Len(stack) :
       stack[i].at \in {"fetch", "loop"} => stack[i].depth <= options.maxDepth
  /\ \A f \in fetched :
       OnRecursivePath(f) => f.depth >= 0 /\ f.depth <= options.maxDepth

\* A page was inserted at depth maxDepth >= 1 and one of its links is being
\* turned away for its depth.
C2_Witness ==
  /\ options.maxDepth >= 1
  /\ stack # <<>>
  /\ Top.at = "entry"
  /\ Top.depth > options.maxDepth
  /\ \E f \in fetched : OnRecursivePath(f) /\ f.ok /\ f.depth = options.maxDepth

\* C3: in a recursive crawl a URL is inserted into the Page Graph at most
\* once, and a page whose internal links contain its own URL is fetched once.
C3_InsertedOnceFetchedOnce ==
  recursiveInvoked =>
    \A u \in AllUrls :
      /\ insertCount[u] <= 1
      /\ (u \in Keys /\ u \in InternalLinks(u)) => fetchCount[u] = 1

\* C4: recursiveCrawl terminates: once the traversal has started, control
\* comes back to crawlWebsite.
C4_Terminates == (pc = "recursive") ~> (pc = "save")

\* The traversal of a cyclic link graph (two pages linking to each other)
\* has come back.
C4_Witness ==
  /\ pc = "save"
  /\ recursiveInvoked
  /\ \E u \in Keys, v \in Keys :
       u # v /\ v \in InternalLinks(u) /\ u \in InternalLinks(v)

\* C5: within one recursive crawl no URL is fetched more than once, whether
\* its fetch failed or succeeded.
C5_FetchedAtMostOnce ==
  recursiveInvoked => \A u \in AllUrls : fetchCount[u] <= 1

\* C6: every failed page fetch of a recursive crawl leaves the Page Graph
\* unchanged and has an entry with its URL in the Error Log.
C6_FailedFetchLogged ==
  \A f \in fetched :
    (OnRecursivePath(f) /\ ~f.ok) =>
      \E i \in 1..Len(errors) : errors[i].url = f.url

\* C7: a failed fetch of one candidate does not stop the loop over its
\* parent's links and does not make crawlWebsite throw: when the crawl is
\* done a result was returned, and every internal link of every stored page
\* is in the graph, or was fetched one level below its page, or was excluded
\* by the page bound, the depth bound or the robots policy.
C7_SiblingsProcessed ==
  /\ pc = "thrown" => ~recursiveInvoked
  /\ (pc = "done" /\ recursiveInvoked) =>
       /\ crawlData.returned
       /\ \A f \in fetched :
            (OnRecursivePath(f) /\ f.ok) =>
              \A l \in InternalLinks(f.url) :
                \/ l \in Keys
                \/ Cardinality(Keys) >= options.maxPages
                \/ f.depth + 1 > options.maxDepth
                \/ ~Permitted(canCrawlFn, l)
                \/ \E g \in fetched :
                     OnRecursivePath(g) /\ g.url = l /\ g.depth = f.depth + 1

\* A stored page has two links; the fetch of the first failed, the second
\* was fetched after it at the same depth and is in the graph.
C7_Witness ==
  /\ pc = "done"
  /\ recursiveInvoked
  /\ \E p \in Keys :
       LET ls == pages[p].links.internal IN
         /\ Len(ls) = 2
         /\ ls[1] \notin Keys
         /\ ls[2] \in Keys
         /\ \E f \in fetched, g \in fetched :
              /\ OnRecursivePath(f) /\ f.url = ls[1] /\ ~f.ok
              /\ OnRecursivePath(g) /\ g.url = ls[2] /\ g.ok /\ g.depth = f.depth

\* C8: in a recursive crawl a candidate whose URL does not parse or whose
\* path the robots rules disallow is never fetched, never stored (so none of
\* its links is followed) and never the subject of an Error Log entry.
C8_RejectedSilently ==
  recursiveInvoked =>
    \A u \in AllUrls \cup {BadUrl} :
      ~Permitted(canCrawlFn, u) =>
        /\ \A f \in fetched : f.url # u
        /\ u \notin Keys
        /\ \A i \in 1..Len(errors) : errors[i].url # u
        /\ \A i \in 1..Len(stack) : stack[i].pageUrl = u => stack[i].at = "entry"

\* A link with a disallowed path was reached within the depth and page
\* bounds, and the crawl finished without it.
C8_Witness ==
  /\ pc = "done"
  /\ recursiveInvoked
  /\ Cardinality(Keys) < options.maxPages
  /\ \E c \in candidates :
       /\ ~Permitted(canCrawlFn, c.link)
       /\ \E f \in fetched :
            OnRecursivePath(f) /\ f.ok /\ f.url = c.parent /\ f.depth < options.maxDepth

\* C9: with robots compliance enabled, no URL whose path the robots policy
\* disallows is fetched as a page or stored in the Page Graph, on either
\* path.  The policy is the one the crawl built from the robots document it
\* obtained (permit-all when the request failed) on the recursive path, and
\* the one the site serves on the sitemap path.
C9_RobotsRespected ==
  options.respectRobotsTxt =>
    /\ \A f \in fetched :
         canCrawl(IF OnRecursivePath(f) THEN canCrawlFn ELSE SitePolicy, f.url.path)
    /\ \A u \in Keys :
         canCrawl(IF recursiveInvoked THEN canCrawlFn ELSE SitePolicy, u.path)

\* C10 as stated: a sitemap of N >= 1 same-domain URLs ends with exactly
\* min(N, maxPages) pages and without recursiveCrawl.
C10_ExactlyMinPages ==
  (pc = "done" /\ sitemapFound) =>
    /\ Cardinality(Keys) = SitemapTaken
    /\ ~recursiveInvoked

\* C10 as amended: a sitemap of N >= 1 same-domain URLs ends with one page
\* for each distinct URL among the first min(N, maxPages) sitemap URLs that
\* was fetched successfully, so with at most min(N, maxPages) pages, and
\* with exactly that many when those URLs are distinct and every fetch
\* succeeded; recursiveCrawl is never invoked.
C10_SitemapPages ==
  /\ sitemapFound => ~recursiveInvoked /\ Len(sitemapPages) >= 1
  /\ (pc = "done" /\ sitemapFound) =>
       LET taken == {sitemapPages[i] : i \in 1..SitemapTaken} IN
         /\ Keys = {u \in taken : \E f \in fetched : f.url = u /\ f.ok}
         /\ \A f \in fetched : f.url \in taken
         /\ Cardinality(Keys) <= SitemapTaken
         /\ (Cardinality(taken) = SitemapTaken /\ \A f \in fetched : f.ok)
              => Cardinality(Keys) = SitemapTaken

\* The sitemap lists more URLs than maxPages and the crawl ended with
\* maxPages pages.
C10_Witness ==
  /\ pc = "done"
  /\ sitemapFound
  /\ Len(sitemapPages) > options.maxPages
  /\ Cardinality(Keys) = options.maxPages

\* C11: whenever fetchSitemap comes back empty (request failed, non-2xx,
\* malformed, no url entries, no same-domain entries) crawlWebsite does
\* not throw, runs recursiveCrawl from the seed at depth 0, and returns a
\* Crawl Result with sitemapFound = false.
C11_SitemapFallback ==
  (isValidUrl(options.url) /\ pc \notin {"start", "sitemap"} /\ sitemapPages = <<>>) =>
    /\ ~sitemapFound
    /\ pc # "thrown"
    /\ pc \in {"recursive", "save", "done"} => recursiveInvoked
    /\ stack # <<>> => stack[1].pageUrl = options.url /\ stack[1].depth = 0
    /\ pc = "done" => crawlData.returned /\ crawlData.sitemapFound = FALSE

MatchesSome(patterns, path) ==
  \E i \in 1..Len(patterns) : RegExpTest(patterns[i], path)

\* C12: canCrawl(path) is false exactly when the path matches some
\* accumulated disallow pattern and no accumulated allow pattern.
C12_AllowOverrides ==
  (pc = "returned" /\ output.fn = "canCrawl") =>
    (output.answer = FALSE <=>
       /\ MatchesSome(output.rules.disallow, input.path)
       /\ ~MatchesSome(output.rules.allow, input.path))

\* C13: parseRobotsText never throws, whatever the document, and an empty
\* document permits every path.
C13_NeverThrows ==
  input.fn = "parseRobotsText" =>
    /\ pc # "thrown"
    /\ (pc = "returned" /\ input.robotsContent = <<>>) => output.answer = TRUE

\* C14: findOrphanedPages returns exactly the discovered page URLs that no
\* page lists among its internal links, minus the crawl's seed URL.
C14_OrphansExact ==
  (pc = "returned" /\ output.fn = "findOrphanedPages" /\ input.file.exists) =>
    LET file == input.file
        discovered == {file.pages[i].url : i \in 1..Len(file.pages)}
        referenced == UNION {Range(file.pages[i].links.internal) : i \in 1..Len(file.pages)}
    IN Range(output.value) = (discovered \ referenced) \ {file.startUrl}

\* What happened on the wire, read off the probe history.
GotWorkingResponse(p) ==
  p.outcome.kind = "response" /\ p.outcome.status >= 200 /\ p.outcome.status < 400
TimedOut(p) ==
  /\ p.outcome.kind = "error"
  /\ (p.outcome.code = "ECONNABORTED" \/ "timeout" \in Range(p.outcome.message))
NotWorking(p) == ~GotWorkingResponse(p)
FailedProbes == SelectSeq(probes, NotWorking)

\* C15: a probed link is counted as working iff a response came back with
\* a final status in [200,400); every other probe has its entry in the
\* broken list, in order, with the response's status, or 0 without response.
C15_WorkingIffStatus ==
  /\ workingCount = Len(SelectSeq(probes, GotWorkingResponse))
  /\ Len(brokenLinks) = Len(FailedProbes)
  /\ \A j \in 1..Len(brokenLinks) :
       /\ brokenLinks[j].url = FailedProbes[j].url
       /\ ~brokenLinks[j].isWorking
       /\ brokenLinks[j].status =
            IF FailedProbes[j].outcome.kind = "response"
            THEN FailedProbes[j].outcome.status ELSE 0

\* A finished check with a working link, a 404 and a probe without response.
C15_Witness ==
  /\ pc = "done"
  /\ linkResult.workingLinks >= 1
  /\ \E j \in 1..Len(brokenLinks) : brokenLinks[j].status = 404
  /\ \E i \in 1..Len(probes) : probes[i].outcome.kind = "error"

\* C16: a probe that timed out has a broken entry with status 0 and an
\* error containing 'timeout'; summary.totalTimeouts counts exactly those
\* entries, summary.total404 exactly the 404 responses, and no entry is
\* counted under both.
C16_TimeoutsTallied ==
  /\ Len(brokenLinks) = Len(FailedProbes)
  /\ \A j \in 1..Len(brokenLinks) :
       /\ TimedOut(FailedProbes[j]) =>
            /\ brokenLinks[j].status = 0
            /\ includes(brokenLinks[j].error, "timeout")
       /\ ~(brokenLinks[j].status = 404 /\ includes(brokenLinks[j].error, "timeout"))
  /\ (pc = "done" /\ linkResult.returned) =>
       /\ linkResult.summary.totalTimeouts = Len(SelectSeq(probes, TimedOut))
       /\ linkResult.summary.total404 =
            Len(SelectSeq(probes, LAMBDA p : p.outcome.kind = "response"
                                              /\ p.outcome.status = 404))
       /\ linkResult.summary.totalTimeouts + linkResult.summary.total404
            <= Len(linkResult.brokenLinks)

\* A finished check in which one probe timed out and another got a 404.
C16_Witness ==
  /\ pc = "done"
  /\ linkResult.returned
  /\ linkResult.summary.totalTimeouts >= 1
  /\ linkResult.summary.total404 >= 1

PagesOfFile == IF crawlFile.exists THEN crawlFile.pages ELSE <<>>
InternalOfFile == UNION {Range(PagesOfFile[i].links.internal) : i \in 1..Len(PagesOfFile)}
ExternalOfFile == UNION {Range(PagesOfFile[i].links.external) : i \in 1..Len(PagesOfFile)}
ProbedOnce ==
  /\ \A i \in 1..Len(probes), j \in 1..Len(probes) :
       probes[i].url = probes[j].url => i = j
  /\ linkResult.workingLinks + Len(linkResult.brokenLinks) = linkResult.totalChecked
  /\ linkResult.totalChecked = Len(probes)

\* C17 as stated: on return every candidate was probed exactly once,
\* workingLinks + |brokenLinks| = totalChecked, and the candidates are the
\* internal links of every page of the crawl data, the external links too
\* iff checkExternal is set, and the supplied urls.
C17_EveryCandidateOnce ==
  (pc = "done" /\ linkResult.returned) =>
    /\ ProbedOnce
    /\ {probes[i].url : i \in 1..Len(probes)} =
         InternalOfFile
           \cup (IF linkOptions.checkExternal THEN ExternalOfFile ELSE {})
           \cup Range(linkOptions.urls)

\* C17 as amended: the links of the crawl data are candidates only when
\* useCrawlData is set; otherwise the candidates are the supplied urls.
C17_CandidatesOnce ==
  (pc = "done" /\ linkResult.returned) =>
    /\ ProbedOnce
    /\ {probes[i].url : i \in 1..Len(probes)} =
         (IF linkOptions.useCrawlData
          THEN InternalOfFile
                 \cup (IF linkOptions.checkExternal THEN ExternalOfFile ELSE {})
          ELSE {})
           \cup Range(linkOptions.urls)

\* A finished check over crawl data of two pages sharing a link, without
\* the external links, with a supplied url, in which a probe failed.
C17_Witness ==
  /\ pc = "done"
  /\ linkResult.returned
  /\ linkOptions.useCrawlData
  /\ ~linkOptions.checkExternal
  /\ ExternalOfFile # {}
  /\ Len(PagesOfFile) = 2
  /\ linkOptions.urls # <<>>
  /\ linkResult.brokenLinks # <<>>
  /\ linkResult.workingLinks >= 1

\* C18: crawlWebsite with an invalid seed, and checkBrokenLinks with no
\* domain and no urls or with an empty candidate set, throw: no request of
\* any kind was issued and no result was produced.
C18_ConfigErrorsFailFast ==
  /\ ~isValidUrl(options.url) =>
       /\ pc \in {"start", "thrown"}
       /\ network = {}
       /\ ~crawlData.returned
  /\ (linkOptions # NoInput
         /\ (DomainOf(linkOptions).host = ""
                \/ Len(CollectLinks(linkOptions, crawlFile)) = 0)) =>
       /\ pc \in {"lstart", "thrown"}
       /\ network = {}
       /\ probes = <<>>
       /\ ~linkResult.returned

\* checkBrokenLinks has thrown for a known domain whose crawl data exists
\* and yields no link to check.
C18_Witness ==
  /\ pc = "thrown"
  /\ linkOptions # NoInput
  /\ DomainOf(linkOptions).host # ""
  /\ linkOptions.useCrawlData
  /\ crawlFile.exists
  /\ network = {}

\* C19: once a URL is a key of the Page Graph, no step of the crawl removes
\* it, changes its Page value or fetches the URL again, on either path.
C19_PageImmutable ==
  [][\A u \in DOMAIN pages :
       /\ u \in DOMAIN pages'
       /\ pages'[u] = pages[u]
       /\ fetchCount'[u] = fetchCount[u]]_vars

\* C20: normalizeUrl returns an input that begins with http:// or https://
\* unchanged, with or without a base, and turns an input that begins with
\* '/' into the base's scheme, '://', the base's host and the input, without
\* the base's path.
C20_AbsoluteInputs ==
  (pc = "returned" /\ output.fn = "normalizeUrl") =>
    /\ (input.url # <<>> /\ input.url[1] \in {"http://", "https://"}) =>
         output.value = input.url
    /\ (input.url # <<>> /\ input.url[1] = "/" /\ URLParse(input.baseUrl).ok) =>
         output.value = <<input.baseUrl[1], input.baseUrl[2]>> \o input.url

\* '/a' against 'https://a.com/a/' has given 'https://a.com/a'.
C20_Witness ==
  /\ pc = "returned"
  /\ output.fn = "normalizeUrl"
  /\ input.url = <<"/", "a">>
  /\ input.baseUrl = <<"https://", "a.com", "/", "a", "/">>
  /\ output.value = <<"https://", "a.com", "/", "a">>

\* C21: every URL fetched as a page, and so every key of the Page Graph,
\* has the seed's hostname, and no link a stored page lists as external is
\* ever fetched.
C21_SameHostOnly ==
  /\ \A f \in fetched : f.url.host = options.url.host
  /\ \A u \in Keys : u.host = options.url.host
  /\ \A p \in Keys :
       \A l \in Range(pages[p].links.external) :
         /\ l.host # options.url.host
         /\ \A f \in fetched : f.url # l

\* A recursive crawl with room left in depth and pages stored a page that
\* lists an external link and finished without ever requesting it.
C21_Witness ==
  /\ pc = "done"
  /\ recursiveInvoked
  /\ Cardinality(Keys) < options.maxPages
  /\ \E f \in fetched :
       /\ f.ok
       /\ f.depth < options.maxDepth
       /\ UrlX \in Range(pages[f.url].links.external)
  /\ fetchCount[UrlX] = 0

\* C22: every request of a crawl (sitemap, robots, every page on either
\* path) is preceded by the rate-limit delay, and a page request of the
\* recursive traversal by exactly one.
C22_EveryRequestDelayed ==
  \A r \in delays :
    /\ r.sleeps >= 1
    /\ r.request = "recursive page" => r.sleeps = 1

\* C23: canCrawl depends only on the Allow and Disallow lines of the last
\* User-agent block that matches the identity or '*': its answer is the one
\* that block alone gives, whatever earlier matching blocks and blocks of
\* other agents list.
C23_LastMatchingBlockOnly ==
  (pc = "returned" /\ output.fn = "canCrawl") =>
    LET doc == input.robotsContent
        heads == {i \in 1..Len(doc) : doc[i].field = "User-agent"}
        matching == {i \in heads : doc[i].value \in {input.userAgent, "*"}}
        start == CHOOSE i \in matching : \A j \in matching : j <= i
        later == {i \in heads : i > start}
        last == IF later = {} THEN Len(doc)
                ELSE (CHOOSE i \in later : \A j \in later : i <= j) - 1
        block == IF matching = {} THEN <<>> ELSE SubSeq(doc, start, last)
    IN output.answer = canCrawl(parseRobotsText(block, input.userAgent), input.path)

C25_FragmentAnchorOnePage ==
  (/\ pc = "done"
   /\ \A f \in fetched : f.ok
   /\ site \in SinglePageSites
   /\ Len(site.anchorsOf[RootPath]) = 1
   /\ site.anchorsOf[RootPath][1][1] \in {"#", "?"}
   /\ options.maxDepth >= 1
   /\ options.maxPages >= 2) =>
    /\ Cardinality(Keys) = 1
    /\ Cardinality(fetched) = 1

\* C26 as stated: if no fetch fails, no path is disallowed and the
\* recursive crawl ends with fewer than maxPages pages, every page that a
\* chain of at most maxDepth internal links reaches from the seed is in the
\* Page Graph, whatever the order of the links on each page.
C26_ReachableWithinDepth ==
  (/\ pc = "done"
   /\ site # AnySite
   /\ \A f \in fetched : f.ok
   /\ Cardinality(Keys) < options.maxPages) =>
    \A n \in 0..options.maxDepth :
      \A chain \in [0..n -> DOMAIN site.anchorsOf] :
        (/\ chain[0] = options.url.path
         /\ \A i \in 0..(n - 1) : chain[i + 1] \in Range(site.anchorsOf[chain[i]]))
          => \E u \in Keys : u.path = chain[n]

\* C26 as amended: under the same conditions every internal link of every
\* page that was fetched at a depth below maxDepth is in the Page Graph; a
\* page first visited at depth maxDepth keeps its place, and what lies
\* behind it is not visited even when a shorter chain leads there.
C26_LinksOfShallowPages ==
  (/\ pc = "done"
   /\ site # AnySite
   /\ \A f \in fetched : f.ok
   /\ Cardinality(Keys) < options.maxPages) =>
    \A f \in fetched :
      f.depth < options.maxDepth => InternalLinks(f.url) \subseteq Keys

\* The seed links to /a and /b in this order, /a to /b and /b to /c: with
\* maxDepth 2 and room for every page the crawl has ended without /c, which
\* is two links away from the seed.
C26_Witness ==
  /\ pc = "done"
  /\ site \in LinkedSites
  /\ options.maxDepth = 2
  /\ \A f \in fetched : f.ok
  /\ Cardinality(Keys) = 3
  /\ Cardinality(Keys) < options.maxPages
  /\ site.anchorsOf[RootPath] = <<PathA, PathB>>
  /\ PathB \in Range(site.anchorsOf[PathA])
  /\ <<"/", "c">> \in Range(site.anchorsOf[PathB])
  /\ \A u \in Keys : u.path # <<"/", "c">>

\* C27: a candidate whose hostname is the domain of the check is probed
\* with the internal timeout, every other candidate with externalTimeout.
C27_InternalTimeout ==
  \A i \in 1..Len(probes) :
    probes[i].timeout =
      IF probes[i].url.host = DomainOf(linkOptions).host
      THEN "DEFAULT_TIMEOUT" ELSE "externalTimeout"

\* C28: every screenshot of capturePresentationScreenshots with
\* slideNumber k is saved as slide-<k on two digits>.png and was taken while
\* the presentation was showing slide k, whatever captures failed before.
C28_SlideMatchesFile ==
  input.fn = "capturePresentationScreenshots" =>
    \A i \in 1..Len(shots) :
      LET k == shots[i].slideNumber
      IN /\ shots[i].file =
              [prefix |-> "slide-",
               number |-> IF k <= 9 THEN <<0, k>> ELSE <<k \div 10, k % 10>>,
               ext |-> ".png"]
         /\ shots[i].shows = k

\* C29: captureScreenshots with useCrawlData, a base url, no urls and crawl
\* data for the domain captures every page URL of the crawl data once per
\* viewport.
C29_CrawlDataCaptured ==
  (/\ pc = "returned"
   /\ input.fn = "captureScreenshots"
   /\ input.useCrawlData
   /\ input.url # <<>>
   /\ input.urls = <<>>
   /\ input.file.exists
   /\ Len(input.file.pages) > 0) =>
    \A v \in Range(input.viewports) :
      \A p \in {input.file.pages[i].url : i \in 1..Len(input.file.pages)} :
        Cardinality({i \in 1..Len(attempts) :
                       attempts[i].item.viewport = v /\ attempts[i].item.url = p}) = 1

\* C30: when one of the four browser tools returns or rejects, the browser
\* it launched is closed, and an item whose capture or audit failed is
\* followed by an attempt on the next item of the loop.
C30_BrowserClosed ==
  input.fn \in {"captureScreenshots", "captureScreenshot",
                "capturePresentationScreenshots", "runAccessibilityAudit"} =>
    /\ pc \in {"returned", "rejected"} => browser # "open"
    /\ pc = "loop" => (browser = "open" \/ input.fn = "runAccessibilityAudit")
    /\ pc = "returned" => workLeft = <<>>
    /\ (/\ attempts # <<>>
        /\ attempts[Len(attempts)].outcome = "fail"
        /\ workLeft # <<>>) => pc = "loop"

\* A tool has returned with its browser closed after a loop in which an
\* item failed and a later one succeeded.
C30_Witness ==
  /\ pc = "returned"
  /\ browser = "closed"
  /\ \E i \in 1..Len(attempts), j \in 1..Len(attempts) :
       /\ i < j
       /\ attempts[i].outcome = "fail"
       /\ attempts[j].outcome = "ok"

====
